---- MODULE Spec2Model ----
(***************************************************************************)
(* State-machine model of frontend/app.js: the browser controller that     *)
(* keeps the current portfolio, talks to /parse-docx and /simulate, and    *)
(* renders a simulation response.                                          *)
(*                                                                         *)
(* Text is a sequence of one-character strings.  A JavaScript value is a   *)
(* record of one fixed shape [t, n, s, kids] so that any two values can be *)
(* compared:                                                               *)
(*   t = "undefined" | "null" | "bool" | "number" | "nan" | "string"       *)
(*       | "array" | "object" | "member"                                   *)
(*   n = the number (or 0/1 for a boolean), s = the characters of a string *)
(*   (or of a member's key), kids = the elements of an array, the members  *)
(*   of an object, or the single value of a member.                        *)
(***************************************************************************)
EXTENDS Integers, Sequences, FiniteSets, TLC

\* ------------------------------------------------------------------------
\* JavaScript values
\* ------------------------------------------------------------------------
JV(t, n, s, kids) == [t |-> t, n |-> n, s |-> s, kids |-> kids]

Undefined == JV("undefined", 0, <<>>, <<>>)
Null      == JV("null", 0, <<>>, <<>>)
JTrue     == JV("bool", 1, <<>>, <<>>)
JFalse    == JV("bool", 0, <<>>, <<>>)
NaN       == JV("nan", 0, <<>>, <<>>)
Num(n)    == JV("number", n, <<>>, <<>>)
Str(s)    == JV("string", 0, s, <<>>)
Arr(xs)   == JV("array", 0, <<>>, xs)
Member(k, v) == JV("member", 0, k, <<v>>)
Obj(ms)   == JV("object", 0, <<>>, ms)

\* ToBoolean, as applied by `!currentPortfolioJSON` (line 47) and by `||`
\* (lines 48-49): undefined, null, false, 0, NaN and "" are falsy.
Truthy(v) ==
    CASE v.t = "undefined" -> FALSE
      [] v.t = "null"      -> FALSE
      [] v.t = "nan"       -> FALSE
      [] v.t = "bool"      -> v.n = 1
      [] v.t = "number"    -> v.n # 0
      [] v.t = "string"    -> Len(v.s) > 0
      [] OTHER             -> TRUE

\* ------------------------------------------------------------------------
\* Text helpers
\* ------------------------------------------------------------------------
NL == "\n"
WhiteSpace == {" ", NL}
Digits == <<"0", "1", "2", "3", "4", "5", "6", "7", "8", "9">>
DigitSet == {Digits[i] : i \in 1..10}
DigitVal(c) == (CHOOSE i \in 1..10 : Digits[i] = c) - 1

RECURSIVE NatText(_)
NatText(n) == IF n < 10 THEN <<Digits[n + 1]>>
              ELSE NatText(n \div 10) \o <<Digits[(n % 10) + 1]>>

IntText(n) == IF n < 0 THEN <<"-">> \o NatText(-n) ELSE NatText(n)

RECURSIVE Spaces(_)
Spaces(k) == IF k = 0 THEN <<>> ELSE <<" ">> \o Spaces(k - 1)

\* String.prototype.trim (line 33)
RECURSIVE TrimLeft(_)
TrimLeft(txt) == IF Len(txt) > 0 /\ Head(txt) \in WhiteSpace
                 THEN TrimLeft(Tail(txt)) ELSE txt

RECURSIVE TrimRight(_)
TrimRight(txt) == IF Len(txt) > 0 /\ txt[Len(txt)] \in WhiteSpace
                  THEN TrimRight(SubSeq(txt, 1, Len(txt) - 1)) ELSE txt

Trim(txt) == TrimRight(TrimLeft(txt))

\* ------------------------------------------------------------------------
\* JSON.stringify(value, null, space): space = 2 on line 23, and no space
\* argument (0 here) on line 56.  With space = 0 there are no line breaks,
\* no indentation and no blank after a colon.
\* ------------------------------------------------------------------------
IndentStep == 2

RECURSIVE Stringify(_, _, _)
RECURSIVE StringifyItems(_, _, _, _)

Open(c, ind, space)  == IF space = 0 THEN <<c>> ELSE <<c, NL>>
Close(c, ind, space) == IF space = 0 THEN <<c>> ELSE <<NL>> \o Spaces(ind) \o <<c>>

\* the text of v, itself at indentation `ind`
Stringify(v, ind, space) ==
    CASE v.t = "null"   -> <<"n", "u", "l", "l">>
      [] v.t = "nan"    -> <<"n", "u", "l", "l">>
      [] v.t = "bool"   -> IF v.n = 1 THEN <<"t", "r", "u", "e">>
                                      ELSE <<"f", "a", "l", "s", "e">>
      [] v.t = "number" -> IntText(v.n)
      [] v.t = "string" -> <<"\"">> \o v.s \o <<"\"">>
      [] v.t = "member" -> <<"\"">> \o v.s \o <<"\"", ":">>
                             \o (IF space = 0 THEN <<>> ELSE <<" ">>)
                             \o Stringify(v.kids[1], ind, space)
      [] v.t = "array"  ->
            IF Len(v.kids) = 0 THEN <<"[", "]">>
            ELSE Open("[", ind, space)
                   \o StringifyItems(v.kids, 1, ind + space, space)
                   \o Close("]", ind, space)
      [] v.t = "object" ->
            IF Len(v.kids) = 0 THEN <<"{", "}">>
            ELSE Open("{", ind, space)
                   \o StringifyItems(v.kids, 1, ind + space, space)
                   \o Close("}", ind, space)
      [] OTHER          -> <<>>

\* the items xs[i..], each at indentation `ind`, separated by commas
StringifyItems(xs, i, ind, space) ==
    IF i > Len(xs) THEN <<>>
    ELSE Spaces(IF space = 0 THEN 0 ELSE ind) \o Stringify(xs[i], ind, space)
           \o (IF i < Len(xs) THEN Open(",", ind, space) ELSE <<>>)
           \o StringifyItems(xs, i + 1, ind, space)

\* JSON.stringify(v, null, 2) and JSON.stringify(v)
Pretty(v)  == Stringify(v, 0, IndentStep)
Compact(v) == Stringify(v, 0, 0)

\* ------------------------------------------------------------------------
\* JSON.parse   (line 34; Response.json() on lines 21 and 59 parses the
\* same grammar).  A result is [ok, v, next]: next is the first position
\* not consumed.
\* ------------------------------------------------------------------------
Fail == [ok |-> FALSE, v |-> Null, next |-> 0]
Got(v, next) == [ok |-> TRUE, v |-> v, next |-> next]

RECURSIVE SkipWs(_, _)
SkipWs(txt, i) == IF i <= Len(txt) /\ txt[i] \in WhiteSpace
                  THEN SkipWs(txt, i + 1) ELSE i

Matches(txt, i, lit) ==
    /\ i + Len(lit) - 1 <= Len(txt)
    /\ \A k \in 1..Len(lit) : txt[i + k - 1] = lit[k]

\* digits from position i on: [n, next]
RECURSIVE ScanDigits(_, _, _)
ScanDigits(txt, i, acc) ==
    IF i <= Len(txt) /\ txt[i] \in DigitSet
    THEN ScanDigits(txt, i + 1, acc * 10 + DigitVal(txt[i]))
    ELSE [n |-> acc, next |-> i]

\* the integer rule with the sign read but not applied
ParseNumberNoSign(txt, i) ==
    LET neg == i <= Len(txt) /\ txt[i] = "-"
        j   == IF neg THEN i + 1 ELSE i
        d   == ScanDigits(txt, j, 0)
    IN  IF d.next = j THEN Fail
        ELSE IF txt[j] = "0" /\ d.next > j + 1 THEN Got(Num(0), j + 1)
        ELSE Got(Num(d.n), d.next)

\* a JSON integer: -? (0 | [1-9][0-9]*)
ParseNumber(txt, i) ==
    LET neg == i <= Len(txt) /\ txt[i] = "-"
        j   == IF neg THEN i + 1 ELSE i
        d   == ScanDigits(txt, j, 0)
    IN  IF d.next = j THEN Fail
        ELSE IF txt[j] = "0" /\ d.next > j + 1 THEN Got(Num(0), j + 1)
        ELSE Got(Num(IF neg THEN -d.n ELSE d.n), d.next)

\* the position of the closing quote of a string whose body starts at i,
\* or 0: a raw line break inside a string is not allowed
RECURSIVE ClosingQuote(_, _)
ClosingQuote(txt, i) ==
    IF i > Len(txt) THEN 0
    ELSE IF txt[i] = "\"" THEN i
    ELSE IF txt[i] = NL THEN 0
    ELSE ClosingQuote(txt, i + 1)

ParseString(txt, i) ==
    IF ~(i <= Len(txt) /\ txt[i] = "\"") THEN Fail
    ELSE LET q == ClosingQuote(txt, i + 1)
         IN  IF q = 0 THEN Fail
             ELSE Got(Str(SubSeq(txt, i + 1, q - 1)), q + 1)

\* an object keeps one member per key: a repeated key keeps its first
\* position and takes the last value
RECURSIVE PutMember(_, _, _)
PutMember(ms, k, v) ==
    IF Len(ms) = 0 THEN <<Member(k, v)>>
    ELSE IF Head(ms).s = k THEN <<Member(k, v)>> \o Tail(ms)
    ELSE <<Head(ms)>> \o PutMember(Tail(ms), k, v)

RECURSIVE ParseValue(_, _)
RECURSIVE ParseElements(_, _, _)
RECURSIVE ParseMembers(_, _, _)

ParseValue(txt, i) ==
    IF i > Len(txt) THEN Fail
    ELSE CASE txt[i] = "n" ->
                IF Matches(txt, i, <<"n", "u", "l", "l">>)
                THEN Got(Null, i + 4) ELSE Fail
           [] txt[i] = "t" ->
                IF Matches(txt, i, <<"t", "r", "u", "e">>)
                THEN Got(JTrue, i + 4) ELSE Fail
           [] txt[i] = "f" ->
                IF Matches(txt, i, <<"f", "a", "l", "s", "e">>)
                THEN Got(JFalse, i + 5) ELSE Fail
           [] txt[i] = "\"" -> ParseString(txt, i)
           [] txt[i] = "[" ->
                LET j == SkipWs(txt, i + 1)
                IN  IF j <= Len(txt) /\ txt[j] = "]" THEN Got(Arr(<<>>), j + 1)
                    ELSE ParseElements(txt, j, <<>>)
           [] txt[i] = "{" ->
                LET j == SkipWs(txt, i + 1)
                IN  IF j <= Len(txt) /\ txt[j] = "}" THEN Got(Obj(<<>>), j + 1)
                    ELSE ParseMembers(txt, j, <<>>)
           [] OTHER -> ParseNumber(txt, i)

\* value (ws , ws value)* ws ]   with the elements read so far in acc
ParseElements(txt, i, acc) ==
    LET r == ParseValue(txt, i)
    IN  IF ~r.ok THEN Fail
        ELSE LET j == SkipWs(txt, r.next)
             IN  IF j > Len(txt) THEN Fail
                 ELSE IF txt[j] = "]" THEN Got(Arr(Append(acc, r.v)), j + 1)
                 ELSE IF txt[j] = ","
                      THEN ParseElements(txt, SkipWs(txt, j + 1), Append(acc, r.v))
                 ELSE Fail

\* string ws : ws value (ws , ws member)* ws }
ParseMembers(txt, i, acc) ==
    LET k == ParseString(txt, i)
    IN  IF ~k.ok THEN Fail
        ELSE LET c == SkipWs(txt, k.next)
             IN  IF ~(c <= Len(txt) /\ txt[c] = ":") THEN Fail
                 ELSE LET r == ParseValue(txt, SkipWs(txt, c + 1))
                      IN  IF ~r.ok THEN Fail
                          ELSE LET j == SkipWs(txt, r.next)
                                   ms == PutMember(acc, k.v.s, r.v)
                               IN  IF j > Len(txt) THEN Fail
                                   ELSE IF txt[j] = "}" THEN Got(Obj(ms), j + 1)
                                   ELSE IF txt[j] = ","
                                        THEN ParseMembers(txt, SkipWs(txt, j + 1), ms)
                                   ELSE Fail

\* JSON.parse(txt): [ok, v]; ok = FALSE is the SyntaxError
JSONParse(txt) ==
    LET r == ParseValue(txt, SkipWs(txt, 1))
    IN  IF r.ok /\ SkipWs(txt, r.next) > Len(txt)
        THEN [ok |-> TRUE, v |-> r.v]
        ELSE [ok |-> FALSE, v |-> Null]

\* ------------------------------------------------------------------------
\* Number(string)   (lines 48-49): StringToNumber on the trimmed text.
\* Empty text is 0, an optionally signed run of digits is its value,
\* anything else is NaN.
\* ------------------------------------------------------------------------
ToNumber(txt) ==
    LET t   == Trim(txt)
        sgn == Len(t) > 0 /\ t[1] \in {"-", "+"}
        j   == IF sgn THEN 2 ELSE 1
        d   == ScanDigits(t, j, 0)
    IN  IF Len(t) = 0 THEN Num(0)
        ELSE IF d.next = j \/ d.next <= Len(t) THEN NaN
        ELSE Num(IF t[1] = "-" THEN -d.n ELSE d.n)

\* `value || dflt` followed by Number(...): an input's value is a string,
\* and only the empty string is falsy
NumberOrDefault(value, dflt) ==
    IF Len(value) > 0 THEN ToNumber(value) ELSE Num(dflt)

DefaultNPaths == 10000
DefaultSeed == 42

\* the request body of line 56, before serialisation
SimBody(portfolio, nPaths, seed) ==
    Obj(<<Member(<<"portfolio">>, portfolio),
          Member(<<"n_paths">>, nPaths),
          Member(<<"seed">>, seed)>>)

\* obj[key] for a value JSON can produce: Undefined when absent
RECURSIVE Lookup(_, _)
Lookup(ms, key) ==
    IF Len(ms) = 0 THEN Undefined
    ELSE IF Head(ms).s = key THEN Head(ms).kids[1]
    ELSE Lookup(Tail(ms), key)

\* data.portfolio (line 22): reading a property of null throws a TypeError
Throws(v) == v.t \in {"null", "undefined"}
GetProp(v, key) == IF v.t = "object" THEN Lookup(v.kids, key) ELSE Undefined

\* the mirror written without the indentation argument
MirrorTextCompact(v) ==
    IF v.t = "undefined"
    THEN <<"u", "n", "d", "e", "f", "i", "n", "e", "d">>
    ELSE Compact(v)

\* what assigning v to textarea.value stores (line 23): JSON.stringify
\* returns undefined for undefined, which the DOM turns into "undefined"
MirrorText(v) ==
    IF v.t = "undefined"
    THEN <<"u", "n", "d", "e", "f", "i", "n", "e", "d">>
    ELSE Pretty(v)

\* ------------------------------------------------------------------------
\* Number formatting used by renderResults
\* ------------------------------------------------------------------------
\* (v*100).toFixed(1) for a probability v given in ten-thousandths
\* (v = p / 10000): v*100 = p/100, rounded to the nearest tenth.  When
\* p/100 lies exactly between two tenths (p ends in 5) the result depends
\* on the binary value of v*100 (0.4565*100 prints as "45.6"): the inputs
\* used here avoid such p.
PercentText(p) ==
    LET tenths == (p + 5) \div 10
    IN  NatText(tenths \div 10) \o <<".">> \o NatText(tenths % 10)

\* (m/12).toFixed(1) for a month index m: every tie (m/12 = k + 0.05) is a
\* multiple of 0.25, exact in binary, and toFixed takes the larger digit
YearText(m) ==
    LET tenths == (20 * m + 12) \div 24
    IN  NatText(tenths \div 10) \o <<".">> \o NatText(tenths % 10)

\* Math.round(a) for an amount a >= 0 given in tenths (a = t / 10)
MathRound(t) == (t + 5) \div 10

\* three digits, zero padded
Group3(n) == <<Digits[(n \div 100) + 1], Digits[((n \div 10) % 10) + 1],
               Digits[(n % 10) + 1]>>

\* Number.prototype.toLocaleString() of an integer n >= 0 in a locale that
\* groups digits by three with commas
RECURSIVE ToLocaleString(_)
ToLocaleString(n) ==
    IF n < 1000 THEN NatText(n)
    ELSE ToLocaleString(n \div 1000) \o <<",">> \o Group3(n % 1000)

\* ------------------------------------------------------------------------
\* renderResults(data)   (lines 67-128)
\* A response body is [has, prob_by_goal, summary, ptiles_over_time]: `has`
\* is the set of top-level fields present; prob_by_goal is the sequence of
\* [goal, p] entries in iteration order, p in ten-thousandths; the summary
\* amounts and the percentile values are in tenths of a dollar.
\* A rendered text is a sequence of lines, a line a sequence of pieces.
\* The source's en dash and ellipsis are written "-" and "..." here.
\* ------------------------------------------------------------------------
Literal(word) == <<word>>

\* `${k}: ${(v*100).toFixed(1)}%`  (line 70)
GoalLine(e) == <<e.goal, ":", " ">> \o PercentText(e.p) \o <<"%">>

\* lines 69-70: the goal lines joined by "\n"; the join of no lines is the
\* empty string, which is one empty line of the summary
ProbLines(data) ==
    IF Len(data.prob_by_goal) = 0 THEN << <<>> >>
    ELSE [i \in 1..Len(data.prob_by_goal) |-> GoalLine(data.prob_by_goal[i])]

Dollars(t) == <<"$">> \o ToLocaleString(MathRound(t))

\* the summary without the empty element of line 75
SummaryTextNoBlank(data) ==
    << Literal("Goal Probabilities") >>
      \o ProbLines(data)
      \o << Literal("Median terminal: ") \o Dollars(data.summary.median_terminal),
            Literal("5th-95th: ") \o Dollars(data.summary.p5_terminal)
              \o Literal(" - ") \o Dollars(data.summary.p95_terminal) >>

\* lines 72-78
SummaryText(data) ==
    << Literal("Goal Probabilities") >>
      \o ProbLines(data)
      \o << <<>>,
            Literal("Median terminal: ") \o Dollars(data.summary.median_terminal),
            Literal("5th-95th: ") \o Dollars(data.summary.p5_terminal)
              \o Literal(" - ") \o Dollars(data.summary.p95_terminal) >>

\* lines 82-83: one pill per entry
ProbPills(data) ==
    [i \in 1..Len(data.prob_by_goal) |->
        [goal |-> data.prob_by_goal[i].goal,
         text |-> PercentText(data.prob_by_goal[i].p) \o <<"%">>]]

\* the x axis counted from month 1 instead of month 0
YearsFromOne(p50) == [i \in 1..Len(p50) |-> YearText(i)]

\* lines 89-90
Years(p50) == [i \in 1..Len(p50) |-> YearText(i - 1)]

\* lines 92-105: the traces handed to Plotly.newPlot('fanChart', ...)
FanTraces(data) ==
    LET pt    == data.ptiles_over_time
        years == Years(pt.p50)
    IN  << [name |-> "90th", x |-> years, y |-> pt.p90],
           [name |-> "10th", x |-> years, y |-> pt.p10],
           [name |-> "Median", x |-> years, y |-> pt.p50] >>

\* lines 115-122: the traces handed to Plotly.newPlot('histChart', ...)
HistTraces(data) ==
    << [name |-> "P5", x |-> <<0>>, y |-> <<data.summary.p5_terminal>>],
       [name |-> "Median", x |-> <<1>>, y |-> <<data.summary.median_terminal>>],
       [name |-> "P95", x |-> <<2>>, y |-> <<data.summary.p95_terminal>>] >>

\* The display is [simSummary, probGoals, fanChart, histChart].
\* renderResults run on display d: the display it leaves and whether it
\* threw.  Object.entries(undefined) throws on line 69 and s.median_terminal
\* on line 76, both before anything is written; reading .p10 of an absent
\* ptiles_over_time throws on line 86, after the summary and the pills
\* were written.
RenderResults(data, d) ==
    IF "prob_by_goal" \notin data.has \/ "summary" \notin data.has
    THEN [threw |-> TRUE, d |-> d]
    ELSE LET d1 == [d EXCEPT !.simSummary = SummaryText(data),
                             !.probGoals = ProbPills(data)]
         IN  IF "ptiles_over_time" \notin data.has
             THEN [threw |-> TRUE, d |-> d1]
             ELSE [threw |-> FALSE,
                   d |-> [d1 EXCEPT !.fanChart = FanTraces(data),
                                    !.histChart = HistTraces(data)]]

\* ------------------------------------------------------------------------
\* Bounds and the inputs the environment draws from
\* ------------------------------------------------------------------------
\* how many requests (parse and simulate together) a run issues
MaxRequests == 2

Portfolio1 == Obj(<<Member(<<"a">>, Num(1)),
                    Member(<<"b">>, Arr(<<JTrue, Str(<<"x", " ", "y">>)>>))>>)
Portfolio2 == Arr(<<Num(20), Obj(<<Member(<<"c">>, Num(-3))>>), Arr(<<>>)>>)

\* values a parse response or the editor can carry as the portfolio
PortfolioValues == {Portfolio1, Portfolio2, Null, Num(0)}

\* texts the user can leave in the JSON editor: the text of each value,
\* one padded with white space, and texts that are not JSON
InvalidTexts == {<<>>, <<"{", "\"", "a", "\"", ":">>}
EditorTexts ==
    {Pretty(v) : v \in PortfolioValues}
      \cup {<<" ", NL>> \o Compact(Portfolio2) \o <<NL>>}
      \cup InvalidTexts

\* values of the nPaths and seed inputs
NumberInputs == {<<>>, <<"2", "5", "0">>, <<"a", "b", "c">>}

\* the file picker: no file, or a file
NoFile == "none"
Files == {NoFile, "plan.docx"}

\* a response to POST /parse-docx: the fetch rejects ("network"), or
\* resolves with r.ok false ("http") or true ("ok") and a body text
ParseBody(v) == Compact(Obj(<<Member(<<"portfolio">>, v)>>))
ParseResponses ==
    {[kind |-> "network", body |-> <<>>], [kind |-> "http", body |-> <<>>]}
      \cup {[kind |-> "ok", body |-> ParseBody(v)] : v \in PortfolioValues}
      \cup {[kind |-> "ok", body |-> b] :
              b \in {<<"<", "h", "t", "m", "l", ">">>, Compact(Null),
                     Compact(Obj(<<>>))}}

\* months in the long response: two years, both ends included
Months == 25

\* simulation response bodies
Data1 == [has |-> {"prob_by_goal", "summary", "ptiles_over_time"},
          prob_by_goal |-> <<[goal |-> "retirement", p |-> 8230]>>,
          summary |-> [median_terminal |-> 12345674, p5_terminal |-> 5000000,
                       p95_terminal |-> 30000000],
          ptiles_over_time |-> [p10 |-> [i \in 1..Months |-> 1000 + 5 * i],
                                p50 |-> [i \in 1..Months |-> 1000 + 10 * i],
                                p90 |-> [i \in 1..Months |-> 1000 + 20 * i]]]
Data2 == [has |-> {"prob_by_goal", "summary", "ptiles_over_time"},
          prob_by_goal |-> <<[goal |-> "house", p |-> 4566],
                             [goal |-> "college", p |-> 10000]>>,
          summary |-> [median_terminal |-> 9995, p5_terminal |-> 0,
                       p95_terminal |-> 20004],
          ptiles_over_time |-> [p10 |-> <<10, 20>>, p50 |-> <<10, 30>>,
                                p90 |-> <<10, 40>>]]
\* a response with no goals
Data0 == [Data2 EXCEPT !.prob_by_goal = <<>>]
Without(data, field) == [data EXCEPT !.has = @ \ {field}]

NoData == Without(Without(Without(Data1, "prob_by_goal"), "summary"),
                  "ptiles_over_time")

\* a response to POST /simulate: "network", "http", a body that is not
\* JSON ("body"), or a JSON body ("ok")
SimResponses ==
    {[kind |-> k, data |-> NoData] : k \in {"network", "http", "body"}}
      \cup {[kind |-> "ok", data |-> d] :
              d \in {Data0, Data1, Data2, Without(Data2, "ptiles_over_time"),
                     Without(Data1, "summary")}}

\* ------------------------------------------------------------------------
\* State
\* ------------------------------------------------------------------------
VARIABLES
    currentPortfolioJSON,  \* line 4
    jsonInput,             \* value of the #jsonInput textarea
    parseStatus,           \* [msg, isErr] of #parseStatus (setStatus)
    simSummary,            \* textContent of #simSummary
    probGoals,             \* the pills in #probGoals
    fanChart,              \* traces last plotted on 'fanChart'
    histChart,             \* traces last plotted on 'histChart'
    parsePending,          \* ids of parse handlers suspended at line 19
    simPending,            \* ids of simulate handlers suspended at line 53
    parseSeq,              \* parse requests issued so far
    simSeq,                \* simulate requests issued so far
    notice,                \* the alert() raised by the last step, or ""
    sent,                  \* the fetch() issued by the last step, or NoRequest
    staleParse             \* history: ids of the parse requests that were
                           \* outstanding at a clear since which no parse or
                           \* load started later has succeeded

vars == <<currentPortfolioJSON, jsonInput, parseStatus, simSummary, probGoals,
          fanChart, histChart, parsePending, simPending, parseSeq, simSeq,
          notice, sent, staleParse>>

display == [simSummary |-> simSummary, probGoals |-> probGoals,
            fanChart |-> fanChart, histChart |-> histChart]

NoRequest == [url |-> "", body |-> <<>>]

Status(msg, isErr) == [msg |-> msg, isErr |-> isErr]

ChooseFileMsg  == "Please choose a .docx file"
ParsingMsg     == "Parsing..."
ParsedMsg      == "Parsed successfully"
ParseFailedMsg == "Failed to parse document"
LoadedNotice   == "Portfolio JSON loaded."
InvalidNotice  == "Invalid JSON."
LoadFirstNotice == "Load a portfolio first (parse or paste JSON)."
SimulatingText == << Literal("Simulating...") >>
SimFailedText  == << Literal("Simulation failed.") >>

Init ==
    /\ currentPortfolioJSON = Null
    /\ jsonInput = <<>>
    /\ parseStatus = Status("", FALSE)
    /\ simSummary = <<>>
    /\ probGoals = <<>>
    /\ fanChart = <<>>
    /\ histChart = <<>>
    /\ parsePending = {}
    /\ simPending = {}
    /\ parseSeq = 0
    /\ simSeq = 0
    /\ notice = ""
    /\ sent = NoRequest
    /\ staleParse = {}

\* ------------------------------------------------------------------------
\* Handlers
\* ------------------------------------------------------------------------
\* the user edits the JSON editor
EditJson(txt) ==
    /\ UNCHANGED <<currentPortfolioJSON, parseStatus, simSummary, probGoals,
                   fanChart, histChart, parsePending, simPending, parseSeq,
                   simSeq, staleParse>>
    /\ jsonInput' = txt
    /\ notice' = ""
    /\ sent' = NoRequest

\* the parse click without the file check of line 14
ParseBtnClickNoGuard(file) ==
    /\ UNCHANGED <<currentPortfolioJSON, jsonInput, simSummary, probGoals,
                   fanChart, histChart, simPending, simSeq, staleParse>>
    /\ notice' = ""
    /\ parseSeq + simSeq < MaxRequests
    /\ parseStatus' = Status(ParsingMsg, FALSE)
    /\ sent' = [url |-> "/parse-docx", body |-> <<file>>]
    /\ parseSeq' = parseSeq + 1
    /\ parsePending' = parsePending \cup {parseSeq + 1}

\* parseBtn click, lines 12-19, up to the suspension at the fetch
ParseBtnClick(file) ==
    /\ UNCHANGED <<currentPortfolioJSON, jsonInput, simSummary, probGoals,
                   fanChart, histChart, simPending, simSeq, staleParse>>
    /\ notice' = ""
    /\ IF file = NoFile
       THEN /\ parseStatus' = Status(ChooseFileMsg, TRUE)
            /\ sent' = NoRequest
            /\ UNCHANGED <<parsePending, parseSeq>>
       ELSE /\ parseSeq + simSeq < MaxRequests
            /\ parseStatus' = Status(ParsingMsg, FALSE)
            /\ sent' = [url |-> "/parse-docx", body |-> <<file>>]
            /\ parseSeq' = parseSeq + 1
            /\ parsePending' = parsePending \cup {parseSeq + 1}

\* the parse handler with the store reset when the request fails
ParseResponseResetOnFailure(id, resp) ==
    /\ UNCHANGED <<simSummary, probGoals, fanChart, histChart, simPending,
                   parseSeq, simSeq>>
    /\ id \in parsePending
    /\ parsePending' = parsePending \ {id}
    /\ notice' = ""
    /\ sent' = NoRequest
    /\ LET data == JSONParse(resp.body)
       IN  IF resp.kind = "ok" /\ data.ok /\ ~Throws(data.v)
           THEN /\ currentPortfolioJSON' = GetProp(data.v, <<"portfolio">>)
                /\ jsonInput' = MirrorText(GetProp(data.v, <<"portfolio">>))
                /\ parseStatus' = Status(ParsedMsg, FALSE)
                /\ staleParse' = IF id \in staleParse THEN staleParse \ {id}
                                                     ELSE {}
           ELSE /\ parseStatus' = Status(ParseFailedMsg, TRUE)
                /\ currentPortfolioJSON' = Null
                /\ staleParse' = staleParse \ {id}
                /\ UNCHANGED jsonInput

\* the parse handler with a sequence token: the response of a request
\* that is not the latest issued is dropped
ParseResponseDiscardStale(id, resp) ==
    /\ UNCHANGED <<simSummary, probGoals, fanChart, histChart, simPending,
                   parseSeq, simSeq>>
    /\ id \in parsePending
    /\ parsePending' = parsePending \ {id}
    /\ notice' = ""
    /\ sent' = NoRequest
    /\ LET data == JSONParse(resp.body)
       IN  IF id # parseSeq
           THEN /\ staleParse' = staleParse \ {id}
                /\ UNCHANGED <<currentPortfolioJSON, jsonInput, parseStatus>>
           ELSE IF resp.kind = "ok" /\ data.ok /\ ~Throws(data.v)
           THEN /\ currentPortfolioJSON' = GetProp(data.v, <<"portfolio">>)
                /\ jsonInput' = MirrorText(GetProp(data.v, <<"portfolio">>))
                /\ parseStatus' = Status(ParsedMsg, FALSE)
                /\ staleParse' = IF id \in staleParse THEN staleParse \ {id}
                                                     ELSE {}
           ELSE /\ parseStatus' = Status(ParseFailedMsg, TRUE)
                /\ staleParse' = staleParse \ {id}
                /\ UNCHANGED <<currentPortfolioJSON, jsonInput>>

\* parseBtn handler resumed with the response, lines 19-28
ParseResponse(id, resp) ==
    /\ UNCHANGED <<simSummary, probGoals, fanChart, histChart, simPending,
                   parseSeq, simSeq>>
    /\ id \in parsePending
    /\ parsePending' = parsePending \ {id}
    /\ notice' = ""
    /\ sent' = NoRequest
    /\ LET data == JSONParse(resp.body)
       IN  IF resp.kind = "ok" /\ data.ok /\ ~Throws(data.v)
           THEN /\ currentPortfolioJSON' = GetProp(data.v, <<"portfolio">>)
                /\ jsonInput' = MirrorText(GetProp(data.v, <<"portfolio">>))
                /\ parseStatus' = Status(ParsedMsg, FALSE)
                /\ staleParse' = IF id \in staleParse THEN staleParse \ {id}
                                                     ELSE {}
           ELSE /\ parseStatus' = Status(ParseFailedMsg, TRUE)
                /\ staleParse' = staleParse \ {id}
                /\ UNCHANGED <<currentPortfolioJSON, jsonInput>>

\* the load handler with the assignment made before the parse can throw
UseJsonBtnClickResetOnInvalid ==
    /\ UNCHANGED <<jsonInput, parseStatus, simSummary, probGoals, fanChart,
                   histChart, parsePending, simPending, parseSeq, simSeq>>
    /\ LET r == JSONParse(Trim(jsonInput))
       IN  IF r.ok
           THEN /\ currentPortfolioJSON' = r.v
                /\ notice' = LoadedNotice
                /\ staleParse' = {}
           ELSE /\ notice' = InvalidNotice
                /\ currentPortfolioJSON' = Null
                /\ UNCHANGED staleParse
    /\ sent' = NoRequest

\* useJsonBtn click, lines 31-39
UseJsonBtnClick ==
    /\ UNCHANGED <<jsonInput, parseStatus, simSummary, probGoals, fanChart,
                   histChart, parsePending, simPending, parseSeq, simSeq>>
    /\ LET r == JSONParse(Trim(jsonInput))
       IN  IF r.ok
           THEN /\ currentPortfolioJSON' = r.v
                /\ notice' = LoadedNotice
                /\ staleParse' = {}
           ELSE /\ notice' = InvalidNotice
                /\ UNCHANGED <<currentPortfolioJSON, staleParse>>
    /\ sent' = NoRequest

\* clearJsonBtn click, lines 41-44
ClearJsonBtnClick ==
    /\ UNCHANGED <<parseStatus, simSummary, probGoals, fanChart, histChart,
                   parsePending, simPending, parseSeq, simSeq>>
    /\ jsonInput' = <<>>
    /\ currentPortfolioJSON' = Null
    /\ notice' = ""
    /\ sent' = NoRequest
    /\ staleParse' = parsePending

\* the simulate click without the guard of line 47
SimulateBtnClickNoGuard(nPathsValue, seedValue) ==
    /\ UNCHANGED <<currentPortfolioJSON, jsonInput, parseStatus, probGoals,
                   fanChart, histChart, parsePending, parseSeq, staleParse>>
    /\ parseSeq + simSeq < MaxRequests
    /\ notice' = ""
    /\ simSummary' = SimulatingText
    /\ sent' = [url |-> "/simulate",
                body |-> Compact(SimBody(currentPortfolioJSON,
                            NumberOrDefault(nPathsValue, DefaultNPaths),
                            NumberOrDefault(seedValue, DefaultSeed)))]
    /\ simSeq' = simSeq + 1
    /\ simPending' = simPending \cup {simSeq + 1}

\* simulateBtn click, lines 46-57, up to the suspension at the fetch
SimulateBtnClick(nPathsValue, seedValue) ==
    /\ UNCHANGED <<currentPortfolioJSON, jsonInput, parseStatus, probGoals,
                   fanChart, histChart, parsePending, parseSeq, staleParse>>
    /\ IF ~Truthy(currentPortfolioJSON)
       THEN /\ notice' = LoadFirstNotice
            /\ sent' = NoRequest
            /\ UNCHANGED <<simSummary, simPending, simSeq>>
       ELSE /\ parseSeq + simSeq < MaxRequests
            /\ notice' = ""
            /\ simSummary' = SimulatingText
            /\ sent' = [url |-> "/simulate",
                        body |-> Compact(SimBody(currentPortfolioJSON,
                                    NumberOrDefault(nPathsValue, DefaultNPaths),
                                    NumberOrDefault(seedValue, DefaultSeed)))]
            /\ simSeq' = simSeq + 1
            /\ simPending' = simPending \cup {simSeq + 1}

\* the simulate handler with the charts emptied when the request fails
SimulateResponseClearsCharts(id, resp) ==
    /\ UNCHANGED <<currentPortfolioJSON, jsonInput, parseStatus, parsePending,
                   parseSeq, simSeq, staleParse>>
    /\ id \in simPending
    /\ simPending' = simPending \ {id}
    /\ notice' = ""
    /\ sent' = NoRequest
    /\ LET r == RenderResults(resp.data, display)
       IN  IF resp.kind = "ok" /\ ~r.threw
           THEN /\ simSummary' = r.d.simSummary
                /\ probGoals' = r.d.probGoals
                /\ fanChart' = r.d.fanChart
                /\ histChart' = r.d.histChart
           ELSE /\ simSummary' = SimFailedText
                /\ fanChart' = <<>>
                /\ histChart' = <<>>
                /\ UNCHANGED probGoals

\* the simulate handler dropping the portfolio when the request fails
SimulateResponseWritesStore(id, resp) ==
    /\ UNCHANGED <<jsonInput, parseStatus, parsePending, parseSeq, simSeq,
                   staleParse>>
    /\ id \in simPending
    /\ simPending' = simPending \ {id}
    /\ notice' = ""
    /\ sent' = NoRequest
    /\ currentPortfolioJSON' = IF resp.kind = "ok" THEN currentPortfolioJSON
                               ELSE Null
    /\ LET r == RenderResults(resp.data, display)
       IN  IF resp.kind = "ok"
           THEN /\ simSummary' = IF r.threw THEN SimFailedText
                                            ELSE r.d.simSummary
                /\ probGoals' = r.d.probGoals
                /\ fanChart' = r.d.fanChart
                /\ histChart' = r.d.histChart
           ELSE /\ simSummary' = SimFailedText
                /\ UNCHANGED <<probGoals, fanChart, histChart>>

\* the simulate handler without the catch of lines 61-64: a failure leaves
\* whatever was written before the throw
SimulateResponseNoCatch(id, resp) ==
    /\ UNCHANGED <<currentPortfolioJSON, jsonInput, parseStatus, parsePending,
                   parseSeq, simSeq, staleParse>>
    /\ id \in simPending
    /\ simPending' = simPending \ {id}
    /\ notice' = ""
    /\ sent' = NoRequest
    /\ LET r == RenderResults(resp.data, display)
       IN  IF resp.kind = "ok"
           THEN /\ simSummary' = r.d.simSummary
                /\ probGoals' = r.d.probGoals
                /\ fanChart' = r.d.fanChart
                /\ histChart' = r.d.histChart
           ELSE UNCHANGED <<simSummary, probGoals, fanChart, histChart>>

\* the simulate handler rendering only while a portfolio is loaded
SimulateResponseNeedsPortfolio(id, resp) ==
    /\ UNCHANGED <<currentPortfolioJSON, jsonInput, parseStatus, parsePending,
                   parseSeq, simSeq, staleParse>>
    /\ id \in simPending
    /\ simPending' = simPending \ {id}
    /\ notice' = ""
    /\ sent' = NoRequest
    /\ LET r == RenderResults(resp.data, display)
       IN  IF ~Truthy(currentPortfolioJSON)
           THEN UNCHANGED <<simSummary, probGoals, fanChart, histChart>>
           ELSE IF resp.kind = "ok"
           THEN /\ simSummary' = IF r.threw THEN SimFailedText
                                            ELSE r.d.simSummary
                /\ probGoals' = r.d.probGoals
                /\ fanChart' = r.d.fanChart
                /\ histChart' = r.d.histChart
           ELSE /\ simSummary' = SimFailedText
                /\ UNCHANGED <<probGoals, fanChart, histChart>>

\* simulateBtn handler resumed with the response, lines 53-64
SimulateResponse(id, resp) ==
    /\ UNCHANGED <<currentPortfolioJSON, jsonInput, parseStatus, parsePending,
                   parseSeq, simSeq, staleParse>>
    /\ id \in simPending
    /\ simPending' = simPending \ {id}
    /\ notice' = ""
    /\ sent' = NoRequest
    /\ LET r == RenderResults(resp.data, display)
       IN  IF resp.kind = "ok"
           THEN /\ simSummary' = IF r.threw THEN SimFailedText
                                            ELSE r.d.simSummary
                /\ probGoals' = r.d.probGoals
                /\ fanChart' = r.d.fanChart
                /\ histChart' = r.d.histChart
           ELSE /\ simSummary' = SimFailedText
                /\ UNCHANGED <<probGoals, fanChart, histChart>>

Next ==
    \/ \E txt \in EditorTexts : EditJson(txt)
    \/ \E file \in Files : ParseBtnClick(file)
    \/ \E id \in parsePending, resp \in ParseResponses : ParseResponse(id, resp)
    \/ UseJsonBtnClick
    \/ ClearJsonBtnClick
    \/ \E n \in NumberInputs, sd \in NumberInputs : SimulateBtnClick(n, sd)
    \/ \E id \in simPending, resp \in SimResponses : SimulateResponse(id, resp)

Spec == Init /\ [][Next]_vars

\* ------------------------------------------------------------------------
\* Vocabulary of the properties
\* ------------------------------------------------------------------------
\* the store holds no portfolio
IsNone(v) == v.t \in {"null", "undefined"}

Rendered == <<simSummary, probGoals, fanChart, histChart>>

\* a parse response that is a failure: the fetch rejected, the status was
\* not a success, or the body is not JSON
ParseFails(resp) == resp.kind \in {"network", "http"} \/ ~JSONParse(resp.body).ok

\* a simulate response that is a failure: the fetch rejected, the status
\* was not a success, the body is not JSON, or it lacks an expected field
SimFails(resp) ==
    \/ resp.kind \in {"network", "http", "body"}
    \/ resp.data.has # {"prob_by_goal", "summary", "ptiles_over_time"}

\* field `key` of the JSON body a request carries
BodyField(req, key) == GetProp(JSONParse(req.body).v, <<key>>)

\* an input text that is a number: an optionally signed run of digits
IsNumeric(txt) ==
    LET j == IF Len(txt) > 0 /\ txt[1] \in {"-", "+"} THEN 2 ELSE 1
    IN  /\ Len(txt) >= j
        /\ \A k \in j..Len(txt) : txt[k] \in DigitSet

\* the number an input is claimed to contribute to the request
Effective(txt, dflt) == IF IsNumeric(txt) THEN ToNumber(txt) ELSE Num(dflt)

\* ------------------------------------------------------------------------
\* C1.  Once the response of the most recently issued simulate request has
\* been handled, the response of an earlier-issued request that is still
\* outstanding changes nothing of what is displayed (summary, indicators,
\* charts): only the latest request's response is rendered.
\* The code keeps no sequence token, so this is violated.
\* ------------------------------------------------------------------------
C1_LatestResponseStays ==
    [][\A id \in simPending : \A resp \in SimResponses :
          (id < simSeq /\ simSeq \notin simPending /\ SimulateResponse(id, resp))
             => UNCHANGED Rendered]_vars

\* ------------------------------------------------------------------------
\* C2.  A parse response that is a failure (network error, non-success
\* status, body that is not JSON) sets the parse status to the generic
\* failure message and leaves the current portfolio as it was.
\* ------------------------------------------------------------------------
FailedParseResponses == {resp \in ParseResponses : ParseFails(resp)}

C2_ParseFailureKeepsPortfolio ==
    [][\A id \in parsePending : \A resp \in FailedParseResponses :
          ParseResponse(id, resp)
             => /\ parseStatus' = Status(ParseFailedMsg, TRUE)
                /\ currentPortfolioJSON' = currentPortfolioJSON]_vars

\* a failed parse has been handled while a portfolio was loaded
C2_Witness ==
    /\ parseStatus = Status(ParseFailedMsg, TRUE)
    /\ currentPortfolioJSON = Portfolio1
    /\ parsePending = {}

\* ------------------------------------------------------------------------
\* C3.  A simulate click while the store is none issues no request, raises
\* the blocking notice, and changes neither the store, the summary text nor
\* the charts.
\* ------------------------------------------------------------------------
C3_SimulateNeedsPortfolio ==
    [][\A n \in NumberInputs : \A sd \in NumberInputs :
          (IsNone(currentPortfolioJSON) /\ SimulateBtnClick(n, sd))
             => /\ sent' = NoRequest
                /\ simPending' = simPending
                /\ notice' = LoadFirstNotice
                /\ currentPortfolioJSON' = currentPortfolioJSON
                /\ UNCHANGED Rendered]_vars

\* the notice was raised with no portfolio, over an earlier rendering
C3_Witness ==
    /\ notice = LoadFirstNotice
    /\ IsNone(currentPortfolioJSON)
    /\ fanChart # <<>>

\* ------------------------------------------------------------------------
\* C4.  Right after a successful JSON load (the "loaded" notice is up, so
\* nothing, and no clear, has happened since) a simulate click issues a
\* simulate request, whatever value was loaded.
\* The gate of line 47 is truthiness, so this is violated for 0 and null.
\* ------------------------------------------------------------------------
C4_LoadedMeansSimulable ==
    [][\A n \in NumberInputs : \A sd \in NumberInputs :
          (notice = LoadedNotice /\ SimulateBtnClick(n, sd))
             => sent'.url = "/simulate"]_vars

\* ------------------------------------------------------------------------
\* C5.  Every step that takes the store from a loaded portfolio (a truthy
\* value, one that simulate accepts) to none is the clear action.
\* Violated: loading the text "null", or a parse response whose portfolio
\* is null or absent, empties the store.
\* ------------------------------------------------------------------------
C5_OnlyClearEmptiesStore ==
    [][(Truthy(currentPortfolioJSON) /\ IsNone(currentPortfolioJSON'))
          => ClearJsonBtnClick]_vars

\* ------------------------------------------------------------------------
\* C6.  Loading editor text that is not JSON leaves the store unchanged,
\* raises the rejection notice and issues no request.
\* ------------------------------------------------------------------------
C6_InvalidJsonRejected ==
    [][(UseJsonBtnClick /\ ~JSONParse(Trim(jsonInput)).ok)
          => /\ currentPortfolioJSON' = currentPortfolioJSON
             /\ notice' = InvalidNotice
             /\ sent' = NoRequest
             /\ UNCHANGED <<parsePending, simPending>>]_vars

\* invalid text was rejected while a portfolio was loaded
C6_Witness ==
    /\ notice = InvalidNotice
    /\ jsonInput \in InvalidTexts
    /\ currentPortfolioJSON = Portfolio2

\* ------------------------------------------------------------------------
\* C7.  Loading the text of a value x (indented, compact, or padded with
\* white space) makes the store equal to x, whatever it held before.
\* ------------------------------------------------------------------------
TextsOf == [x \in PortfolioValues |->
              {Pretty(x), Compact(x), <<" ", NL>> \o Compact(x) \o <<NL>>}]

C7_LoadRoundTrip ==
    [][\A x \in PortfolioValues :
          (jsonInput \in TextsOf[x] /\ UseJsonBtnClick)
             => currentPortfolioJSON' = x /\ notice' = LoadedNotice]_vars

\* the text of Portfolio2 was loaded from the padded compact text
C7_Witness ==
    /\ notice = LoadedNotice
    /\ jsonInput = <<" ", NL>> \o Compact(Portfolio2) \o <<NL>>
    /\ currentPortfolioJSON = Portfolio2

\* ------------------------------------------------------------------------
\* C8.  A simulate response that is a failure sets the summary to the
\* generic failure message and leaves both charts as they were.
\* ------------------------------------------------------------------------
FailedSimResponses == {resp \in SimResponses : SimFails(resp)}

C8_SimFailureKeepsCharts ==
    [][\A id \in simPending : \A resp \in FailedSimResponses :
          SimulateResponse(id, resp)
             => /\ simSummary' = SimFailedText
                /\ UNCHANGED <<fanChart, histChart>>]_vars

\* a failure was handled over charts drawn by an earlier response
C8_Witness ==
    /\ simSummary = SimFailedText
    /\ fanChart = FanTraces(Data1)
    /\ histChart = HistTraces(Data1)

\* ------------------------------------------------------------------------
\* C9.  The store changes only in a parse response, a JSON load or a
\* clear; every simulate step and a parse click with no file leave it
\* unchanged.
\* ------------------------------------------------------------------------
C9_StoreWriters ==
    [][(currentPortfolioJSON' # currentPortfolioJSON)
          => /\ \/ \E id \in parsePending : \E resp \in ParseResponses :
                      ParseResponse(id, resp)
                \/ UseJsonBtnClick
                \/ ClearJsonBtnClick
             /\ ~ \E n \in NumberInputs : \E sd \in NumberInputs :
                      SimulateBtnClick(n, sd)
             /\ ~ \E id \in simPending : \E resp \in SimResponses :
                      SimulateResponse(id, resp)
             /\ ~ ParseBtnClick(NoFile)]_vars

\* a simulate request failed and the loaded portfolio is still there
C9_Witness ==
    /\ simSummary = SimFailedText
    /\ probGoals = <<>>
    /\ currentPortfolioJSON = Portfolio1
    /\ simSeq = 1

\* ------------------------------------------------------------------------
\* C10.  The simulate request carries n_paths = 10000 when the n_paths
\* input is empty or not a number and the entered number otherwise, and
\* seed = 42 likewise, each independently of the other input.
\* Number("abc") is NaN and is sent as null, so this is violated.
\* ------------------------------------------------------------------------
C10_DefaultsApplied ==
    [][\A n \in NumberInputs : \A sd \in NumberInputs :
          (Truthy(currentPortfolioJSON) /\ SimulateBtnClick(n, sd))
             => /\ BodyField(sent', "n_paths") = Effective(n, DefaultNPaths)
                /\ BodyField(sent', "seed") = Effective(sd, DefaultSeed)]_vars

\* ------------------------------------------------------------------------
\* C11.  A parse click with no document chosen issues no parse request,
\* sets the parse status to the error message, and leaves the store and the
\* JSON editor text unchanged.
\* ------------------------------------------------------------------------
C11_NoFileNoRequest ==
    [][ParseBtnClick(NoFile)
          => /\ sent' = NoRequest
             /\ parsePending' = parsePending
             /\ parseSeq' = parseSeq
             /\ parseStatus' = Status(ChooseFileMsg, TRUE)
             /\ currentPortfolioJSON' = currentPortfolioJSON
             /\ jsonInput' = jsonInput]_vars

\* the error is shown, with a portfolio loaded and its text in the editor
C11_Witness ==
    /\ parseStatus = Status(ChooseFileMsg, TRUE)
    /\ currentPortfolioJSON = Portfolio1
    /\ jsonInput = Pretty(Portfolio1)
    /\ parseSeq = 0

\* ------------------------------------------------------------------------
\* C12.  Right after a successful parse response (a JSON object with a
\* portfolio field) the editor text is the indented serialisation of the
\* value now in the store, and reading it back gives that value; right
\* after clear the editor is empty and the store is none.
\* ------------------------------------------------------------------------
HasPortfolio(resp) ==
    /\ resp.kind = "ok"
    /\ JSONParse(resp.body).ok
    /\ JSONParse(resp.body).v.t = "object"
    /\ \E i \in 1..Len(JSONParse(resp.body).v.kids) :
          JSONParse(resp.body).v.kids[i].s = <<"portfolio">>

PortfolioResponses == {resp \in ParseResponses : HasPortfolio(resp)}

C13_NothingStuck ==
    /\ parsePending = {} => parseStatus.msg # ParsingMsg
    /\ simPending = {} => simSummary # SimulatingText
    /\ parseSeq + simSeq < MaxRequests
          => /\ ENABLED (\E file \in Files \ {NoFile} : ParseBtnClick(file))
             /\ Len(jsonInput) <= 4 => ENABLED UseJsonBtnClick
             /\ ENABLED ClearJsonBtnClick
             /\ ENABLED (\E n \in NumberInputs : \E sd \in NumberInputs :
                            SimulateBtnClick(n, sd))

\* a parse request has failed with a portfolio loaded, nothing is pending
\* and a request can still be issued
C13_Witness ==
    /\ parseStatus = Status(ParseFailedMsg, TRUE)
    /\ Truthy(currentPortfolioJSON)
    /\ parsePending = {}
    /\ simPending = {}
    /\ parseSeq + simSeq < MaxRequests
    /\ Len(jsonInput) <= 4

\* ------------------------------------------------------------------------
\* C14.  The rendered summary of a response.
\* As claimed: one line "<goal>: <percent to 1 decimal>%" per entry of
\* prob_by_goal, in order, as the FIRST lines of the text, then a blank
\* line, the "Median terminal" line and the "5th-95th" line.
\* As the code has it: the same, after a first line "Goal Probabilities"
\* (and with a single empty line in place of the goal lines when there are
\* no goals).
\* ------------------------------------------------------------------------
FullSimResponses == {resp \in SimResponses : ~SimFails(resp)}

\* the percentage of p ten-thousandths to one decimal: the tenth of a
\* percent nearest to p/100
NearestTenth(p) == CHOOSE t \in 0..1000 : 10 * t - p <= 5 /\ p - 10 * t < 5

ExpectedGoalLine(e) ==
    <<e.goal, ":", " ">> \o NatText(NearestTenth(e.p) \div 10) \o <<".">>
       \o NatText(NearestTenth(e.p) % 10) \o <<"%">>

\* the goal lines each response is to give, in its order
ExpectedGoalLines ==
    [resp \in FullSimResponses |->
        [i \in 1..Len(resp.data.prob_by_goal) |->
            ExpectedGoalLine(resp.data.prob_by_goal[i])]]

\* text is: `skip` lines, the goal lines, a blank line, the two amount lines
SummaryShape(text, lines, skip) ==
    LET n == Len(lines)
        g == IF skip > 0 /\ n = 0 THEN 1 ELSE n
    IN  /\ Len(text) = skip + g + 3
        /\ \A i \in 1..n : text[skip + i] = lines[i]
        /\ n = 0 /\ skip > 0 => text[skip + 1] = <<>>
        /\ text[skip + g + 1] = <<>>
        /\ Len(text[skip + g + 2]) > 0
        /\ Head(text[skip + g + 2]) = "Median terminal: "
        /\ Len(text[skip + g + 3]) > 0
        /\ Head(text[skip + g + 3]) = "5th-95th: "

\* the claim as written: the goal lines are the first lines
C14_GoalLinesFirst ==
    [][\A id \in simPending : \A resp \in FullSimResponses :
          SimulateResponse(id, resp)
             => SummaryShape(simSummary', ExpectedGoalLines[resp], 0)]_vars

\* the claim as amended: a header line comes first
C14_HeaderThenGoalLines ==
    [][\A id \in simPending : \A resp \in FullSimResponses :
          SimulateResponse(id, resp)
             => /\ simSummary'[1] = <<"Goal Probabilities">>
                /\ SummaryShape(simSummary', ExpectedGoalLines[resp], 1)]_vars

\* the two-goal response has been rendered
C14_Witness ==
    /\ Len(simSummary) = 6
    /\ simSummary[2] = <<"house", ":", " ", "4", "5", ".", "7", "%">>
    /\ simSummary[3] = <<"college", ":", " ", "1", "0", "0", ".", "0", "%">>
    /\ simSummary[5] = <<"Median terminal: ", "$", "1", ",", "0", "0", "0">>
    /\ simPending = {}

\* ------------------------------------------------------------------------
\* C15.  Overlapping parse requests: a parse click while a parse request is
\* outstanding leaves that request outstanding, and each successful
\* response, of whichever request, writes its portfolio to the store and
\* leaves the other requests outstanding: the response that resolves last
\* is the one the store ends with, whatever the issue order.
\* ------------------------------------------------------------------------
\* the portfolio a successful response carries
PortfolioOf == [resp \in PortfolioResponses |->
                  GetProp(JSONParse(resp.body).v, <<"portfolio">>)]

C15_LastParseResponseWins ==
    [][/\ \A file \in Files : ParseBtnClick(file)
             => parsePending \subseteq parsePending'
       /\ \A id \in parsePending : \A resp \in PortfolioResponses :
             ParseResponse(id, resp)
                => /\ currentPortfolioJSON' = PortfolioOf[resp]
                   /\ parsePending' = parsePending \ {id}]_vars

\* two requests overlapped: the later-issued one has resolved with
\* Portfolio2 while the earlier-issued one is still outstanding
C15_Witness ==
    /\ parseSeq = 2
    /\ parsePending = {1}
    /\ parseStatus = Status(ParsedMsg, FALSE)
    /\ currentPortfolioJSON = Portfolio2
    /\ jsonInput = Pretty(Portfolio2)

\* ------------------------------------------------------------------------
\* C16.  The percentile band chart: the x axis has exactly len(p50) values,
\* the value at index i being i/12 to one decimal (25 values "0.0" .. "2.0"
\* for a p50 of length 25); the series are given in the order p90, p10,
\* p50, and all three use that x axis.
\* ------------------------------------------------------------------------
\* m/12 to one decimal: the tenth nearest to m/12, the larger on a tie
YearTenth(m) == CHOOSE t \in 0..(m + 1) : 12 * t - 10 * m <= 6 /\ 10 * m - 12 * t < 6

ExpectedYear(m) ==
    NatText(YearTenth(m) \div 10) \o <<".">> \o NatText(YearTenth(m) % 10)

ExpectedYears ==
    [resp \in FullSimResponses |->
        [i \in 1..Len(resp.data.ptiles_over_time.p50) |-> ExpectedYear(i - 1)]]

TwoYears ==
    << <<"0", ".", "0">>, <<"0", ".", "1">>, <<"0", ".", "2">>, <<"0", ".", "3">>,
       <<"0", ".", "3">>, <<"0", ".", "4">>, <<"0", ".", "5">>, <<"0", ".", "6">>,
       <<"0", ".", "7">>, <<"0", ".", "8">>, <<"0", ".", "8">>, <<"0", ".", "9">>,
       <<"1", ".", "0">>, <<"1", ".", "1">>, <<"1", ".", "2">>, <<"1", ".", "3">>,
       <<"1", ".", "3">>, <<"1", ".", "4">>, <<"1", ".", "5">>, <<"1", ".", "6">>,
       <<"1", ".", "7">>, <<"1", ".", "8">>, <<"1", ".", "8">>, <<"1", ".", "9">>,
       <<"2", ".", "0">> >>

C16_FanChartAxis ==
    [][\A id \in simPending : \A resp \in FullSimResponses :
          SimulateResponse(id, resp)
             => LET pt == resp.data.ptiles_over_time
                IN  /\ Len(fanChart') = 3
                    /\ fanChart'[1].y = pt.p90
                    /\ fanChart'[2].y = pt.p10
                    /\ fanChart'[3].y = pt.p50
                    /\ \A k \in 1..3 : fanChart'[k].x = ExpectedYears[resp]
                    /\ Len(fanChart'[1].x) = Len(pt.p50)
                    /\ Len(pt.p50) = 25 => fanChart'[1].x = TwoYears]_vars

\* the 25-month response has been plotted
C16_Witness ==
    /\ Len(fanChart) = 3
    /\ Len(fanChart[3].x) = 25
    /\ fanChart[3].x[25] = <<"2", ".", "0">>
    /\ fanChart[3].y = Data1.ptiles_over_time.p50

\* ------------------------------------------------------------------------
\* C17.  After a clear the store stays none until a parse or a load that
\* was started after that clear succeeds: the response of a parse request
\* issued before the clear puts no portfolio back in the store and no text
\* back in the editor.
\* ------------------------------------------------------------------------
C17_ClearOutlivesOldParse ==
    [][\A id \in staleParse : \A resp \in PortfolioResponses :
          ParseResponse(id, resp) /\ Truthy(PortfolioOf[resp])
             => /\ IsNone(currentPortfolioJSON) => IsNone(currentPortfolioJSON')
                /\ jsonInput' = jsonInput]_vars

\* ------------------------------------------------------------------------
\* C18.  A simulate request carries the portfolio, n_paths and seed of the
\* moment of the click.  A parse response, a load or a clear while it is
\* outstanding sends nothing and leaves the request outstanding, and its
\* response is rendered whatever the store holds by then.
\* ------------------------------------------------------------------------
\* an input that is a number or left empty
Plain(txt) == IsNumeric(txt) \/ txt = <<>>

\* what a complete response puts on the display
RenderedOf ==
    [resp \in FullSimResponses |->
        <<SummaryText(resp.data), ProbPills(resp.data), FanTraces(resp.data),
          HistTraces(resp.data)>>]

C18_RequestFixedAtClick ==
    [][/\ sent'.url = "/simulate"
            => LET body == JSONParse(sent'.body).v
               IN  \A n \in NumberInputs : \A sd \in NumberInputs :
                     SimulateBtnClick(n, sd)
                        => /\ simPending' = simPending \cup {simSeq'}
                           /\ GetProp(body, <<"portfolio">>) = currentPortfolioJSON
                           /\ Plain(n) => GetProp(body, <<"n_paths">>)
                                             = Effective(n, DefaultNPaths)
                           /\ Plain(sd) => GetProp(body, <<"seed">>)
                                             = Effective(sd, DefaultSeed)
       /\ ~(simPending \subseteq simPending')
             => /\ \E id \in simPending : \E resp \in SimResponses :
                      SimulateResponse(id, resp)
                /\ sent' = NoRequest
       /\ (simPending' = simPending /\ currentPortfolioJSON' # currentPortfolioJSON)
             => sent' = NoRequest
       /\ \A id \in simPending : \A resp \in FullSimResponses :
            SimulateResponse(id, resp) => Rendered' = RenderedOf[resp]]_vars

\* a request sent with a portfolio is outstanding and the store has been
\* emptied since
C18_Witness ==
    /\ simPending = {1}
    /\ simSummary = SimulatingText
    /\ IsNone(currentPortfolioJSON)
    /\ jsonInput = <<>>

\* ------------------------------------------------------------------------
\* C19.  Handling a simulate response is all-or-nothing for the display:
\* whenever it ends with the summary showing the failure message, a body
\* missing expected fields included, the probability indicators and both
\* charts are as they were before the response was handled.
\* ------------------------------------------------------------------------
C19_FailureLeavesDisplay ==
    [][\A id \in simPending : \A resp \in SimResponses :
          (SimulateResponse(id, resp) /\ simSummary' = SimFailedText)
             => UNCHANGED <<probGoals, fanChart, histChart>>]_vars

\* ------------------------------------------------------------------------
\* C20.  With no simulate request outstanding the summary shows the failure
\* message only if the most recently issued simulate request failed.
\* Stated for two requests: while request 1 is outstanding and request 2
\* has been handled, the summary is what the response of request 2 left,
\* since the click of request 2 overwrote it and nothing else has written
\* it since; if that is not the failure message, request 2 did not fail,
\* and handling the response of request 1 must not leave the failure
\* message.
\* ------------------------------------------------------------------------
C20_FailureMeansLatestFailed ==
    [][(/\ simSeq = 2
        /\ simPending = {1}
        /\ simSummary # SimFailedText
        /\ \E resp \in SimResponses : SimulateResponse(1, resp))
          => simSummary' # SimFailedText]_vars

====
